---- MODULE Spec2Model ----
(***************************************************************************)
(* A model of 9cc.c: the tokenizer, the recursive-descent parser and the   *)
(* code generator of a compiler for integer arithmetic expressions.        *)
(*                                                                         *)
(* Characters are one-character strings, the source text is a sequence of  *)
(* them.  A char* into user_input is its offset (0-based); the byte at the *)
(* end of the string is NUL.  Token* is an index into the token list (the  *)
(* next field of token i is i + 1; the null successor of the last token    *)
(* is Len(tokens) + 1).  Node* is an index into the heap nodes (calloc     *)
(* appends), 0 is the null pointer.                                        *)
(*                                                                         *)
(* A C long is 64 bits wide and an int 32 bits wide (LP64, the target of   *)
(* the emitted x86-64 code).  A long is kept as four 16-bit limbs,         *)
(* least significant first, in two's complement.                           *)
(***************************************************************************)
EXTENDS Integers, Sequences, FiniteSets, TLC

VARIABLES
  argc,        \* main's argc
  user_input,  \* char* user_input (the text of argv[1])
  p,           \* tokenize's scan pointer
  tokens,      \* the token list built by new_token
  token,       \* Token* token, the parser's cursor
  nodes,       \* the heap of AST nodes
  frames,      \* the call stack of expr / mul / primary
  ret,         \* the Node* returned by the last parser function to return
  root,        \* main's local variable node
  out,         \* the lines printed on stdout
  err,         \* the diagnostic printed on stderr
  status,      \* the exit status, Running while the process runs
  pc,          \* main's position
  parens       \* history: the nodes returned by primary's "(" expr ")" branch

vars == <<argc, user_input, p, tokens, token, nodes, frames, ret, root, out,
          err, status, pc, parens>>

----------------------------------------------------------------------------
(* Bounds of the model *)

MaxLen == 4        \* every string over Alphabet up to this length is an input
MaxOperands == 3   \* operator chains d op d op ... with up to this many operands

----------------------------------------------------------------------------
(* Characters: <ctype.h> in the C locale, over 7-bit ASCII.  The vertical  *)
(* tab and the grave accent cannot be written in a string here and are     *)
(* left out of isspace and ispunct.                                        *)

NUL == ""
Digits == <<"0", "1", "2", "3", "4", "5", "6", "7", "8", "9">>

isdigit(c) == \E i \in 1..Len(Digits) : Digits[i] = c

isspace(c) == c \in {" ", "\t", "\n", "\r", "\f"}

ispunct(c) == c \in {"!", "\"", "#", "$", "%", "&", "'", "(", ")", "*", "+",
                     ",", "-", ".", "/", ":", ";", "<", "=", ">", "?", "@",
                     "[", "\\", "]", "^", "_", "{", "|", "}", "~"}

DigitVal(c) == (CHOOSE i \in 1..Len(Digits) : Digits[i] = c) - 1

\* *loc for a char* loc into user_input
CharAt(loc) == IF loc < Len(user_input) THEN user_input[loc + 1] ELSE NUL

----------------------------------------------------------------------------
(* 64-bit longs as four 16-bit limbs *)

LimbBase == 65536
LimbHalf == 32768
LimbMax == 65535

Zero == <<0, 0, 0, 0>>
LONG_MAX == <<LimbMax, LimbMax, LimbMax, LimbHalf - 1>>

IsNegative(l) == l[4] >= LimbHalf

\* l * 10 + d as an unbounded natural: the limbs and whether it exceeds LONG_MAX
MulAdd10(l, d) ==
  LET t1 == l[1] * 10 + d
      t2 == l[2] * 10 + (t1 \div LimbBase)
      t3 == l[3] * 10 + (t2 \div LimbBase)
      t4 == l[4] * 10 + (t3 \div LimbBase)
  IN  [val |-> <<t1 % LimbBase, t2 % LimbBase, t3 % LimbBase, t4 % LimbBase>>,
       over |-> t4 >= LimbHalf]

\* the end of the digit run that starts at loc
RECURSIVE DigitRunEnd(_)
DigitRunEnd(loc) == IF isdigit(CharAt(loc)) THEN DigitRunEnd(loc + 1) ELSE loc

\* the digits from loc to end accumulated onto acc; over: LONG_MAX was exceeded
RECURSIVE StrtolAcc(_, _, _, _)
StrtolAcc(loc, end, acc, over) ==
  IF loc = end THEN [val |-> IF over THEN LONG_MAX ELSE acc, erange |-> over]
  ELSE LET r == MulAdd10(acc, DigitVal(CharAt(loc)))
       IN  StrtolAcc(loc + 1, end, r.val, over \/ r.over)

\* strtol(loc, &end, 10) where *loc is a digit: the value (LONG_MAX, with
\* errno ERANGE, on overflow) and the end pointer, past the whole digit run
strtol(loc) ==
  LET r == StrtolAcc(loc, DigitRunEnd(loc), Zero, FALSE)
  IN  [val |-> r.val, erange |-> r.erange, end |-> DigitRunEnd(loc)]

\* the conversion long -> int -> long: the low 32 bits, sign-extended
IntCast(l) ==
  IF l[2] >= LimbHalf THEN <<l[1], l[2], LimbMax, LimbMax>>
  ELSE <<l[1], l[2], 0, 0>>

\* -l modulo 2^64
Negate(l) ==
  LET t1 == (LimbMax - l[1]) + 1
      t2 == (LimbMax - l[2]) + (t1 \div LimbBase)
      t3 == (LimbMax - l[3]) + (t2 \div LimbBase)
      t4 == (LimbMax - l[4]) + (t3 \div LimbBase)
  IN  <<t1 % LimbBase, t2 % LimbBase, t3 % LimbBase, t4 % LimbBase>>

\* the unsigned limbs divided by 10: quotient and remainder
DivMod10(l) ==
  LET c4 == l[4]
      c3 == (c4 % 10) * LimbBase + l[3]
      c2 == (c3 % 10) * LimbBase + l[2]
      c1 == (c2 % 10) * LimbBase + l[1]
  IN  [quot |-> <<c1 \div 10, c2 \div 10, c3 \div 10, c4 \div 10>>,
       rem |-> c1 % 10]

RECURSIVE UDigits(_)
UDigits(l) ==
  IF l = Zero THEN <<>>
  ELSE LET d == DivMod10(l) IN Append(UDigits(d.quot), Digits[d.rem + 1])

\* printf("%ld", l): the characters printed
FormatLd(l) ==
  IF l = Zero THEN <<"0">>
  ELSE IF IsNegative(l) THEN <<"-">> \o UDigits(Negate(l))
  ELSE UDigits(l)

----------------------------------------------------------------------------
(* The inputs of the model *)

Alphabet == {"2", "+", "-", "*", "/", "(", ")", " ", "a"}

\* every string over Alphabet of length at most n
Strings(n) == UNION {[1..k -> Alphabet] : k \in 0..n}

ChainDigits == {"2", "8"}
ChainOps == {"+", "-", "*", "/"}

\* d1 op1 d2 op2 ... dn
Chain(ds, os, n) ==
  [i \in 1..(2 * n - 1) |-> IF i % 2 = 1 THEN ds[(i + 1) \div 2] ELSE os[i \div 2]]

Chains(n) ==
  UNION {{Chain(ds, os, k) : ds \in [1..k -> ChainDigits], os \in [1..(k - 1) -> ChainOps]}
         : k \in 1..n}

\* the inputs the specification discusses, and literals around 2^31, 2^32, 2^63
Examples ==
  { <<"1", "+", "2", "*", "3">>,
    <<"(", "1", "+", "2", ")", "*", "3">>,
    <<"1", "0", "-", "2", "-", "3">>,
    <<"2", "0", "/", "4", "/", "5">>,
    <<"8", "/", "2", "*", "2">>,
    <<" ", "1", " ", "+", " ", " ", "2", " ">>,
    <<"1", "+", "2">>,
    <<"4", "2">>,
    <<"(", "1", "+", "2">>,
    <<"1", "+">>,
    <<"1", "+", "a">>,
    <<"1", "+", "2", ")">>,
    <<"1", " ", "2">>,
    <<"2", "*", "(", "3", "+", "4", ")", "*", "5">>,
    <<"(", "(", "8", "-", "2", ")", ")", "/", "(", "2", "+", "1", ")">>,
    <<"7", "-", "(", "2", "-", "3", ")">>,
    <<"2", "1", "4", "7", "4", "8", "3", "6", "4", "7">>,
    <<"2", "1", "4", "7", "4", "8", "3", "6", "4", "8">>,
    <<"4", "2", "9", "4", "9", "6", "7", "2", "9", "5">>,
    <<"4", "2", "9", "4", "9", "6", "7", "2", "9", "6">>,
    <<"0", "0", "4", "2", "9", "4", "9", "6", "7", "3", "3", "8">>,
    <<"9", "2", "2", "3", "3", "7", "2", "0", "3", "6", "8", "5", "4", "7", "7",
      "5", "8", "0", "7">>,
    <<"9", "2", "2", "3", "3", "7", "2", "0", "3", "6", "8", "5", "4", "7", "7",
      "5", "8", "0", "8">>,
    <<"1", "+", "3", "0", "0", "0", "0", "0", "0", "0", "0", "0">> }

Inputs == Strings(MaxLen) \cup Chains(MaxOperands) \cup Examples

----------------------------------------------------------------------------
(* Tokens and nodes *)

TK_RESERVED == "TK_RESERVED"
TK_NUM == "TK_NUM"
TK_EOF == "TK_EOF"

ND_ADD == "ND_ADD"
ND_SUB == "ND_SUB"
ND_MUL == "ND_MUL"
ND_DIV == "ND_DIV"
ND_NUM == "ND_NUM"

NULL == 0
Running == -1

\* new_token(kind, cur, str): calloc leaves val 0; cur->next is the new token
new_token(kind, str) == Append(tokens, [kind |-> kind, val |-> Zero, str |-> str])

\* new_node(kind): calloc leaves lhs, rhs null and val 0
new_node(kind) == [kind |-> kind, lhs |-> NULL, rhs |-> NULL, val |-> Zero]

new_binary(kind, lhs, rhs) == [new_node(kind) EXCEPT !.lhs = lhs, !.rhs = rhs]

\* new_num(int val): the long argument is converted to int, and back to long
\* by the assignment to node->val
new_num(val) == [new_node(ND_NUM) EXCEPT !.val = IntCast(val)]

----------------------------------------------------------------------------
(* error and error_at: print the diagnostic and exit(1) *)

error(msg) ==
  /\ err' = [input |-> <<>>, pos |-> 0, msg |-> msg]
  /\ status' = 1
  /\ pc' = "exit"

\* pos = loc - user_input; the source line, a caret under pos, the message
error_at(loc, msg) ==
  /\ err' = [input |-> user_input, pos |-> loc - 0, msg |-> msg]
  /\ status' = 1
  /\ pc' = "exit"

----------------------------------------------------------------------------
(* main, up to the call of tokenize *)

Init ==
  /\ argc \in 1..3
  /\ user_input = <<>>
  /\ p = 0
  /\ tokens = <<>>
  /\ token = NULL
  /\ nodes = <<>>
  /\ frames = <<>>
  /\ ret = NULL
  /\ root = NULL
  /\ out = <<>>
  /\ err = [input |-> <<>>, pos |-> 0, msg |-> ""]
  /\ status = Running
  /\ pc = "start"
  /\ parens = <<>>

MainUsage ==
  /\ pc = "start"
  /\ argc # 2
  /\ error("invalid of number of arguments")
  /\ UNCHANGED <<argc, user_input, p, tokens, token, nodes, frames, ret, root,
                 out, parens>>

\* faulty variant: the prologue printed before tokenize is called
MainStart_prologue ==
  /\ pc = "start"
  /\ argc = 2
  /\ \E s \in Inputs : user_input' = s
  /\ p' = 0
  /\ out' = << <<".intel_syntax noprefix">>, <<".global main">>, <<"main:">> >>
  /\ pc' = "tokenize"
  /\ UNCHANGED <<argc, tokens, token, nodes, frames, ret, root, err, status,
                 parens>>

MainStart ==
  /\ pc = "start"
  /\ argc = 2
  /\ \E s \in Inputs : user_input' = s
  /\ p' = 0
  /\ pc' = "tokenize"
  /\ UNCHANGED <<argc, tokens, token, nodes, frames, ret, root, out, err,
                 status, parens>>

----------------------------------------------------------------------------
(* tokenize: one action per branch of the loop *)

TokSpace ==
  /\ pc = "tokenize"
  /\ CharAt(p) # NUL
  /\ isspace(CharAt(p))
  /\ p' = p + 1
  /\ UNCHANGED <<argc, user_input, tokens, token, nodes, frames, ret, root,
                 out, err, status, pc, parens>>

TokPunct ==
  /\ pc = "tokenize"
  /\ CharAt(p) # NUL
  /\ ~isspace(CharAt(p))
  /\ ispunct(CharAt(p))
  /\ tokens' = new_token(TK_RESERVED, p)
  /\ p' = p + 1
  /\ UNCHANGED <<argc, user_input, token, nodes, frames, ret, root, out, err,
                 status, pc, parens>>

TokNum ==
  /\ pc = "tokenize"
  /\ CharAt(p) # NUL
  /\ ~isspace(CharAt(p))
  /\ ~ispunct(CharAt(p))
  /\ isdigit(CharAt(p))
  /\ LET n == strtol(p)
     IN  /\ tokens' = [new_token(TK_NUM, p) EXCEPT ![Len(tokens) + 1].val = n.val]
         /\ p' = n.end
  /\ UNCHANGED <<argc, user_input, token, nodes, frames, ret, root, out, err,
                 status, pc, parens>>

TokInvalid ==
  /\ pc = "tokenize"
  /\ CharAt(p) # NUL
  /\ ~isspace(CharAt(p))
  /\ ~ispunct(CharAt(p))
  /\ ~isdigit(CharAt(p))
  /\ error_at(p, "invalid token")
  /\ UNCHANGED <<argc, user_input, p, tokens, token, nodes, frames, ret, root,
                 out, parens>>

\* the end of the string: the TK_EOF token, return head.next to main, which
\* stores it in token and calls expr
TokEof ==
  /\ pc = "tokenize"
  /\ CharAt(p) = NUL
  /\ tokens' = new_token(TK_EOF, p)
  /\ token' = 1
  /\ frames' = <<[fn |-> "expr", at |-> "enter", node |-> NULL]>>
  /\ pc' = "parse"
  /\ UNCHANGED <<argc, user_input, p, nodes, ret, root, out, err, status,
                 parens>>

----------------------------------------------------------------------------
(* The cursor operations of the parser.  Each yields what the function     *)
(* decides on the current token: whether it matches, the location it would *)
(* report, and the cursor after the call.                                  *)

\* token->kind == TK_RESERVED && token->str[0] == op
Matches(op) ==
  /\ tokens[token].kind = TK_RESERVED
  /\ CharAt(tokens[token].str) = op

consume(op) ==
  [ok |-> Matches(op),
   token |-> IF Matches(op) THEN token + 1 ELSE token]

expect(op) ==
  [fail |-> ~Matches(op),
   loc |-> tokens[token].str,
   token |-> token + 1]

\* faulty variant: the diagnostic placed at the end of the input
expect_number_at_end ==
  [fail |-> tokens[token].kind # TK_NUM,
   loc |-> Len(user_input),
   val |-> tokens[token].val,
   token |-> token + 1]

\* faulty variant: the kind of the current token is not checked
expect_number_nocheck ==
  [fail |-> FALSE,
   loc |-> tokens[token].str,
   val |-> tokens[token].val,
   token |-> token + 1]

expect_number ==
  [fail |-> tokens[token].kind # TK_NUM,
   loc |-> tokens[token].str,
   val |-> tokens[token].val,
   token |-> token + 1]

at_eof == tokens[token].kind = TK_EOF

----------------------------------------------------------------------------
(* The call stack of the recursive descent *)

Top == frames[Len(frames)]

Frame(fn) == [fn |-> fn, at |-> "enter", node |-> NULL]

\* the running function moves to `at` with local node n, and calls fn
CallFrom(at, n, fn) ==
  [frames EXCEPT ![Len(frames)] = [@ EXCEPT !.at = at, !.node = n]] \o <<Frame(fn)>>

Running_(fn, ats) ==
  /\ pc = "parse"
  /\ frames # <<>>
  /\ Top.fn = fn
  /\ Top.at \in ats

\* return n to the caller
Return(n) ==
  /\ frames' = SubSeq(frames, 1, Len(frames) - 1)
  /\ ret' = n

\* the functions expr and mul call for their first operand and for the right
\* operand of an operator
ExprFirstOperand == "mul"
\* faulty variant: the right operand of + and - parsed by expr itself
ExprRightOperand_expr == "expr"
ExprRightOperand == "mul"
MulFirstOperand == "primary"
\* faulty variant: the right operand of * and / parsed by expr
MulRightOperand_expr == "expr"
MulRightOperand == "mul"

----------------------------------------------------------------------------
(* expr = mul ("+" mul | "-" mul)* *)

ExprEnter ==
  /\ Running_("expr", {"enter"})
  /\ frames' = CallFrom("init", NULL, ExprFirstOperand)
  /\ UNCHANGED <<argc, user_input, p, tokens, token, nodes, ret, root, out,
                 err, status, pc, parens>>

ExprInit ==
  /\ Running_("expr", {"init"})
  /\ frames' = [frames EXCEPT ![Len(frames)] = [@ EXCEPT !.at = "loop", !.node = ret]]
  /\ UNCHANGED <<argc, user_input, p, tokens, token, nodes, ret, root, out,
                 err, status, pc, parens>>

ExprLoop ==
  /\ Running_("expr", {"loop"})
  /\ IF consume("+").ok
     THEN /\ token' = consume("+").token
          /\ frames' = CallFrom(ND_ADD, Top.node, ExprRightOperand)
          /\ UNCHANGED ret
     ELSE IF consume("-").ok
     THEN /\ token' = consume("-").token
          /\ frames' = CallFrom(ND_SUB, Top.node, ExprRightOperand)
          /\ UNCHANGED ret
     ELSE /\ token' = consume("-").token
          /\ Return(Top.node)
  /\ UNCHANGED <<argc, user_input, p, tokens, nodes, root, out, err, status,
                 pc, parens>>

\* node = new_binary(kind, node, <the operand just returned>)
ExprFold ==
  /\ Running_("expr", {ND_ADD, ND_SUB})
  /\ nodes' = Append(nodes, new_binary(Top.at, Top.node, ret))
  /\ frames' = [frames EXCEPT ![Len(frames)] =
                  [@ EXCEPT !.at = "loop", !.node = Len(nodes) + 1]]
  /\ UNCHANGED <<argc, user_input, p, tokens, token, ret, root, out, err,
                 status, pc, parens>>

----------------------------------------------------------------------------
(* mul = primary ("*" primary | "/" primary)*, as the code has it *)

MulEnter ==
  /\ Running_("mul", {"enter"})
  /\ frames' = CallFrom("init", NULL, MulFirstOperand)
  /\ UNCHANGED <<argc, user_input, p, tokens, token, nodes, ret, root, out,
                 err, status, pc, parens>>

MulInit ==
  /\ Running_("mul", {"init"})
  /\ frames' = [frames EXCEPT ![Len(frames)] = [@ EXCEPT !.at = "loop", !.node = ret]]
  /\ UNCHANGED <<argc, user_input, p, tokens, token, nodes, ret, root, out,
                 err, status, pc, parens>>

MulLoop ==
  /\ Running_("mul", {"loop"})
  /\ IF consume("*").ok
     THEN /\ token' = consume("*").token
          /\ frames' = CallFrom(ND_MUL, Top.node, MulRightOperand)
          /\ UNCHANGED ret
     ELSE IF consume("/").ok
     THEN /\ token' = consume("/").token
          /\ frames' = CallFrom(ND_DIV, Top.node, MulRightOperand)
          /\ UNCHANGED ret
     ELSE /\ token' = consume("/").token
          /\ Return(Top.node)
  /\ UNCHANGED <<argc, user_input, p, tokens, nodes, root, out, err, status,
                 pc, parens>>

MulFold ==
  /\ Running_("mul", {ND_MUL, ND_DIV})
  /\ nodes' = Append(nodes, new_binary(Top.at, Top.node, ret))
  /\ frames' = [frames EXCEPT ![Len(frames)] =
                  [@ EXCEPT !.at = "loop", !.node = Len(nodes) + 1]]
  /\ UNCHANGED <<argc, user_input, p, tokens, token, ret, root, out, err,
                 status, pc, parens>>

----------------------------------------------------------------------------
(* primary = "(" expr ")" | num *)

PrimaryEnter ==
  /\ Running_("primary", {"enter"})
  /\ IF consume("(").ok
     THEN /\ token' = consume("(").token
          /\ frames' = CallFrom("paren", NULL, "expr")
          /\ UNCHANGED <<nodes, ret, err, status, pc>>
     ELSE IF expect_number.fail
     THEN /\ error_at(expect_number.loc, "expected a number")
          /\ UNCHANGED <<token, frames, nodes, ret>>
     ELSE /\ token' = expect_number.token
          /\ nodes' = Append(nodes, new_num(expect_number.val))
          /\ Return(Len(nodes) + 1)
          /\ UNCHANGED <<err, status, pc>>
  /\ UNCHANGED <<argc, user_input, p, tokens, root, out, parens>>

\* node = expr() has returned: expect(')') and return node
PrimaryClose ==
  /\ Running_("primary", {"paren"})
  /\ IF expect(")").fail
     THEN /\ error_at(expect(")").loc, "expected: ')'")
          /\ UNCHANGED <<token, frames, ret, parens>>
     ELSE /\ token' = expect(")").token
          /\ Return(ret)
          /\ parens' = Append(parens, ret)
          /\ UNCHANGED <<err, status, pc>>
  /\ UNCHANGED <<argc, user_input, p, tokens, nodes, root, out>>

----------------------------------------------------------------------------
(* gen: the lines printed for the tree at node n.  A line is a tuple: the   *)
(* text, and for push the characters %ld prints.                           *)

OpLines(kind) ==
  CASE kind = ND_ADD -> << <<"  add rax, rdi">> >>
    [] kind = ND_SUB -> << <<"  sub rax, rdi">> >>
    [] kind = ND_MUL -> << <<"  imul rax, rdi">> >>
    [] kind = ND_DIV -> << <<"  cqo">>, <<"  idiv rdi">> >>
    [] OTHER -> <<>>

\* faulty variant: the result of the operator is not pushed
RECURSIVE gen_nopush(_)
gen_nopush(n) ==
  IF nodes[n].kind = ND_NUM
  THEN << <<"  push", FormatLd(nodes[n].val)>> >>
  ELSE gen_nopush(nodes[n].lhs) \o gen_nopush(nodes[n].rhs)
       \o << <<"  pop rdi">>, <<"  pop rax">> >>
       \o OpLines(nodes[n].kind)

\* faulty variant: the operands popped in the other order
RECURSIVE gen_swapped(_)
gen_swapped(n) ==
  IF nodes[n].kind = ND_NUM
  THEN << <<"  push", FormatLd(nodes[n].val)>> >>
  ELSE gen_swapped(nodes[n].lhs) \o gen_swapped(nodes[n].rhs)
       \o << <<"  pop rax">>, <<"  pop rdi">> >>
       \o OpLines(nodes[n].kind)
       \o << <<"  push rax">> >>

RECURSIVE gen(_)
gen(n) ==
  IF nodes[n].kind = ND_NUM
  THEN << <<"  push", FormatLd(nodes[n].val)>> >>
  ELSE gen(nodes[n].lhs) \o gen(nodes[n].rhs)
       \o << <<"  pop rdi">>, <<"  pop rax">> >>
       \o OpLines(nodes[n].kind)
       \o << <<"  push rax">> >>

Prologue == << <<".intel_syntax noprefix">>, <<".global main">>, <<"main:">> >>
Epilogue == << <<"  pop rax">>, <<"  ret">> >>

----------------------------------------------------------------------------
(* main, from the return of expr *)

\* Node* node = expr();
MainParsed ==
  /\ pc = "parse"
  /\ frames = <<>>
  /\ root' = ret
  /\ pc' = "prologue"
  /\ UNCHANGED <<argc, user_input, p, tokens, token, nodes, frames, ret, out,
                 err, status, parens>>

MainPrologue ==
  /\ pc = "prologue"
  /\ out' = out \o Prologue
  /\ pc' = "gen"
  /\ UNCHANGED <<argc, user_input, p, tokens, token, nodes, frames, ret, root,
                 err, status, parens>>

MainGen ==
  /\ pc = "gen"
  /\ out' = out \o gen(root)
  /\ pc' = "epilogue"
  /\ UNCHANGED <<argc, user_input, p, tokens, token, nodes, frames, ret, root,
                 err, status, parens>>

\* pop rax, ret, and return 0
MainEpilogue ==
  /\ pc = "epilogue"
  /\ out' = out \o Epilogue
  /\ status' = 0
  /\ pc' = "exit"
  /\ UNCHANGED <<argc, user_input, p, tokens, token, nodes, frames, ret, root,
                 err, parens>>

Next ==
  \/ MainUsage \/ MainStart
  \/ TokSpace \/ TokPunct \/ TokNum \/ TokInvalid \/ TokEof
  \/ ExprEnter \/ ExprInit \/ ExprLoop \/ ExprFold
  \/ MulEnter \/ MulInit \/ MulLoop \/ MulFold
  \/ PrimaryEnter \/ PrimaryClose
  \/ MainParsed \/ MainPrologue \/ MainGen \/ MainEpilogue

Spec == Init /\ [][Next]_vars

----------------------------------------------------------------------------
(* Reading the tree *)

\* the tree at node n as a value: <<ND_NUM, val>> or <<kind, left, right>>
RECURSIVE Tree(_)
Tree(n) ==
  IF nodes[n].kind = ND_NUM THEN <<ND_NUM, nodes[n].val>>
  ELSE <<nodes[n].kind, Tree(nodes[n].lhs), Tree(nodes[n].rhs)>>

Lit(k) == <<ND_NUM, <<k, 0, 0, 0>>>>

Additive == {ND_ADD, ND_SUB}
Multiplicative == {ND_MUL, ND_DIV}

KindOf(c) ==
  CASE c = "+" -> ND_ADD [] c = "-" -> ND_SUB [] c = "*" -> ND_MUL [] c = "/" -> ND_DIV

Range(s) == {s[i] : i \in 1..Len(s)}

\* the first character of token i
TokChar(i) == CharAt(tokens[i].str)

\* expr has returned to main without an error
Parsed == pc \in {"prologue", "gen", "epilogue"} \/ (pc = "exit" /\ status = 0)

\* the token list is  NUM op NUM op NUM EOF  with both operators in ops
IsChain3(ops) ==
  /\ Len(tokens) = 6
  /\ tokens[1].kind = TK_NUM /\ tokens[3].kind = TK_NUM /\ tokens[5].kind = TK_NUM
  /\ tokens[2].kind = TK_RESERVED /\ TokChar(2) \in ops
  /\ tokens[4].kind = TK_RESERVED /\ TokChar(4) \in ops
  /\ tokens[6].kind = TK_EOF

\* BinaryOp(op2, BinaryOp(op1, a, b), c) for the chain's tokens
LeftFold3 ==
  <<KindOf(TokChar(4)),
    <<KindOf(TokChar(2)), <<ND_NUM, tokens[1].val>>, <<ND_NUM, tokens[3].val>>>>,
    <<ND_NUM, tokens[5].val>>>>

RightFold3 ==
  <<KindOf(TokChar(2)),
    <<ND_NUM, tokens[1].val>>,
    <<KindOf(TokChar(4)), <<ND_NUM, tokens[3].val>>, <<ND_NUM, tokens[5].val>>>>>>

----------------------------------------------------------------------------
(* The machine the emitted lines run on: a stack of 64-bit values and the  *)
(* registers rax, rdi, rdx.  Values are integers here, so the trees it is  *)
(* run on have literals below 2^16.  idiv by zero raises a divide fault,   *)
(* which ends the run.                                                     *)

Small(l) == l[2] = 0 /\ l[3] = 0 /\ l[4] = 0
ToInt(l) == l[1]

RECURSIVE SmallTree(_)
SmallTree(n) ==
  IF nodes[n].kind = ND_NUM THEN Small(nodes[n].val)
  ELSE SmallTree(nodes[n].lhs) /\ SmallTree(nodes[n].rhs)

\* C's and idiv's division: the quotient truncates toward zero
TruncDiv(a, b) ==
  LET q == (IF a < 0 THEN -a ELSE a) \div (IF b < 0 THEN -b ELSE b)
  IN  IF (a < 0) = (b < 0) THEN q ELSE -q

\* the decimal characters of an immediate operand, as an integer
RECURSIVE ParseDec(_)
ParseDec(cs) ==
  IF cs = <<>> THEN 0
  ELSE ParseDec(SubSeq(cs, 1, Len(cs) - 1)) * 10 + DigitVal(cs[Len(cs)])

ParseImm(cs) == IF cs[1] = "-" THEN -ParseDec(Tail(cs)) ELSE ParseDec(cs)

Machine0 == [stack |-> <<>>, rax |-> 0, rdi |-> 0, rdx |-> 0, fault |-> FALSE]

Push(m, v) == [m EXCEPT !.stack = Append(@, v)]
Popped(m) == [m EXCEPT !.stack = SubSeq(@, 1, Len(@) - 1)]
TopOf(m) == m.stack[Len(m.stack)]

Step(m, line) ==
  CASE line[1] = "  push" -> Push(m, ParseImm(line[2]))
    [] line[1] = "  push rax" -> Push(m, m.rax)
    [] line[1] = "  pop rdi" -> [Popped(m) EXCEPT !.rdi = TopOf(m)]
    [] line[1] = "  pop rax" -> [Popped(m) EXCEPT !.rax = TopOf(m)]
    [] line[1] = "  add rax, rdi" -> [m EXCEPT !.rax = m.rax + m.rdi]
    [] line[1] = "  sub rax, rdi" -> [m EXCEPT !.rax = m.rax - m.rdi]
    [] line[1] = "  imul rax, rdi" -> [m EXCEPT !.rax = m.rax * m.rdi]
    [] line[1] = "  cqo" -> [m EXCEPT !.rdx = IF m.rax < 0 THEN -1 ELSE 0]
    [] line[1] = "  idiv rdi" ->
         IF m.rdi = 0 THEN [m EXCEPT !.fault = TRUE]
         ELSE [m EXCEPT !.rax = TruncDiv(m.rax, m.rdi),
                        !.rdx = m.rax - m.rdi * TruncDiv(m.rax, m.rdi)]
    [] OTHER -> m

RECURSIVE Run(_, _)
Run(lines, m) ==
  IF lines = <<>> \/ m.fault THEN m ELSE Run(Tail(lines), Step(m, lines[1]))

\* the value of the tree at n: left OP right, or a fault on division by zero
RECURSIVE Eval(_)
Eval(n) ==
  IF nodes[n].kind = ND_NUM THEN [ok |-> TRUE, v |-> ToInt(nodes[n].val)]
  ELSE LET a == Eval(nodes[n].lhs)
           b == Eval(nodes[n].rhs)
           k == nodes[n].kind
       IN  IF ~a.ok \/ ~b.ok \/ (k = ND_DIV /\ b.v = 0) THEN [ok |-> FALSE, v |-> 0]
           ELSE [ok |-> TRUE,
                 v |-> CASE k = ND_ADD -> a.v + b.v
                         [] k = ND_SUB -> a.v - b.v
                         [] k = ND_MUL -> a.v * b.v
                         [] k = ND_DIV -> TruncDiv(a.v, b.v)]

\* what a line does to the depth of the operand stack
StackEffect(line) ==
  IF line[1] \in {"  push", "  push rax"} THEN 1
  ELSE IF line[1] \in {"  pop rdi", "  pop rax"} THEN -1
  ELSE 0

RECURSIVE DepthAfter(_, _)
DepthAfter(lines, k) ==
  IF k = 0 THEN 0 ELSE DepthAfter(lines, k - 1) + StackEffect(lines[k])

----------------------------------------------------------------------------
(* Claims *)

\* C1: a chain a op1 b op2 c of multiplicative operators without parentheses
\* parses as BinaryOp(op2, BinaryOp(op1, a, b), c), never as
\* BinaryOp(op1, a, BinaryOp(op2, b, c)); 20/4/5 has the value 1 and 8/2*2
\* the value 8.
C1_MulChainFoldsLeft ==
  (Parsed /\ IsChain3({"*", "/"})) =>
     /\ Tree(root) = LeftFold3
     /\ Tree(root) # RightFold3
     /\ (user_input = <<"2", "0", "/", "4", "/", "5">> => Eval(root) = [ok |-> TRUE, v |-> 1])
     /\ (user_input = <<"8", "/", "2", "*", "2">> => Eval(root) = [ok |-> TRUE, v |-> 8])

\* an additive node that is the right operand of an additive node came from a
\* parenthesized factor
AdditiveRightOperandsParenthesized ==
  \A n \in 1..Len(nodes) :
     (nodes[n].kind \in Additive /\ nodes[nodes[n].rhs].kind \in Additive)
        => nodes[n].rhs \in Range(parens)

\* C2: a chain a op1 b op2 c of additive operators parses as
\* BinaryOp(op2, BinaryOp(op1, a, b), c): the right operand of + or - is
\* never an unparenthesized + or - node; 10-2-3 has the value 5, not 11.
C2_AddChainFoldsLeft ==
  Parsed =>
     /\ IsChain3({"+", "-"}) => (Tree(root) = LeftFold3 /\ Tree(root) # RightFold3)
     /\ AdditiveRightOperandsParenthesized
     /\ (user_input = <<"1", "0", "-", "2", "-", "3">> => Eval(root) = [ok |-> TRUE, v |-> 5])

C2_Witness ==
  /\ pc = "exit" /\ status = 0
  /\ user_input = <<"1", "0", "-", "2", "-", "3">>
  /\ Tree(root) = <<ND_SUB, <<ND_SUB, Lit(10), Lit(2)>>, Lit(3)>>
  /\ Eval(root).v = 5

\* C3: when the top-level expression has been parsed and the cursor is not on
\* the TK_EOF token, the run fails and emits no assembly: code generation
\* starts, and assembly is emitted, only with the cursor on TK_EOF.
C3_TrailingTokensRejected ==
  (Parsed \/ out # <<>>) => at_eof

\* the indices of the ND_NUM nodes in allocation order, and the TK_NUM tokens
IsNumNode(n) == nodes[n].kind = ND_NUM
IsNumToken(t) == t.kind = TK_NUM
NumNodes == SelectSeq([n \in 1..Len(nodes) |-> n], IsNumNode)
NumTokens == SelectSeq(tokens, IsNumToken)

\* the digit run of a TK_NUM token, and a digit run without its leading zeros
RunText(t) == SubSeq(user_input, t.str + 1, DigitRunEnd(t.str))

RECURSIVE StripZeros(_)
StripZeros(cs) ==
  IF Len(cs) > 1 /\ cs[1] = "0" THEN StripZeros(Tail(cs)) ELSE cs

\* C4: for every digit run with a value v, 0 <= v < 2^63, the ND_NUM node
\* made for it holds v, the value of its TK_NUM token, and its push line
\* prints v.  (primary makes the i-th ND_NUM node from the i-th TK_NUM token.)
C4_LiteralsKeepValue ==
  \A i \in 1..Len(NumNodes) :
     LET t == NumTokens[i]
         n == NumNodes[i]
     IN  ~strtol(t.str).erange =>
            /\ nodes[n].val = t.val
            /\ gen(n) = << <<"  push", StripZeros(RunText(t))>> >>

\* tokenize and expr have both returned, without an error
FrontEndDone ==
  /\ tokens # <<>> /\ tokens[Len(tokens)].kind = TK_EOF
  /\ frames = <<>> /\ root # NULL
  /\ err.msg = ""

Complete == out = Prologue \o gen(root) \o Epilogue

IsPrefix(a, b) == Len(a) <= Len(b) /\ a = SubSeq(b, 1, Len(a))

\* C5: the first assembly line is emitted only after tokenize and expr have
\* completed without error; a usage, lexical or syntax error ends the run
\* with a non-zero status and no assembly line; a run that has emitted an
\* assembly line is past every error exit, between the prologue and the end
\* of main with what it has emitted so far, or has emitted the whole
\* prologue, body and epilogue and exited with status 0.
C5_NoPartialOutput ==
  /\ out # <<>> =>
        /\ FrontEndDone /\ status # 1
        /\ IsPrefix(Prologue, out)
        /\ IsPrefix(out, Prologue \o gen(root) \o Epilogue)
        /\ \/ pc = "gen" /\ status = Running /\ out = Prologue
           \/ pc = "epilogue" /\ status = Running /\ out = Prologue \o gen(root)
           \/ pc = "exit" /\ status = 0 /\ Complete
  /\ err.msg # "" => (pc = "exit" /\ status = 1 /\ out = <<>>)
  /\ (pc = "exit") = (status # Running)
  /\ status = 1 => (err.msg # "" /\ out = <<>>)
  /\ status = 0 => Complete

C5_Witness ==
  /\ pc = "epilogue"
  /\ Len(out) > Len(Prologue)
  /\ status = Running

\* C6: for every complete subtree the lines gen emits leave the operand stack
\* one slot deeper than before and never take it below the depth it started
\* at; the emitted program holds exactly one value before the epilogue, whose
\* pop rax leaves depth 0.
C6_StackDiscipline ==
  /\ pc = "gen" =>
       \A n \in 1..Len(nodes) :
          LET g == gen(n)
          IN  /\ DepthAfter(g, Len(g)) = 1
              /\ \A k \in 0..Len(g) : DepthAfter(g, k) >= 0
  /\ (pc = "exit" /\ status = 0) =>
       /\ \A k \in 0..Len(out) : DepthAfter(out, k) >= 0
       /\ DepthAfter(out, Len(out) - Len(Epilogue)) = 1
       /\ out[Len(out) - 1] = <<"  pop rax">>
       /\ DepthAfter(out, Len(out)) = 0

C6_Witness ==
  /\ pc = "exit" /\ status = 0
  /\ nodes[root].kind \in Multiplicative
  /\ nodes[nodes[root].lhs].kind \in Additive
  /\ DepthAfter(out, Len(out)) = 0

\* C7: when expect or expect_number finds a token that does not match, the
\* run ends with a diagnostic at that token's offset and the cursor where it
\* was; at TK_EOF the offset is the length of the source, so "(1+2" reports
\* offset 4 and "1+" offset 2.
C7_SyntaxErrorAtCurrentToken ==
  [][ /\ (pc = "parse" /\ pc' = "exit") =>
           /\ token' = token
           /\ status' = 1
           /\ err'.input = user_input
           /\ err'.pos = tokens[token].str
           /\ (at_eof => err'.pos = Len(user_input))
           /\ (user_input = <<"(", "1", "+", "2">> =>
                  (err'.pos = 4 /\ err'.msg = "expected: ')'"))
           /\ (user_input = <<"1", "+">> =>
                  (err'.pos = 2 /\ err'.msg = "expected a number"))
      /\ (Running_("primary", {"paren"}) /\ expect(")").fail) => pc' = "exit"
      /\ (Running_("primary", {"enter"}) /\ ~consume("(").ok /\ expect_number.fail)
            => pc' = "exit"
    ]_vars

C7_Witness ==
  /\ pc = "exit" /\ status = 1
  /\ user_input = <<"(", "1", "+", "2">>
  /\ at_eof /\ token > 1
  /\ err.pos = Len(user_input)

\* the number of "(" tokens
RECURSIVE OpenParens(_)
OpenParens(i) ==
  IF i = 0 THEN 0
  ELSE OpenParens(i - 1)
       + (IF tokens[i].kind = TK_RESERVED /\ TokChar(i) = "(" THEN 1 ELSE 0)

\* C8: an additive node is an operand of a multiplicative node only if it
\* came from a parenthesized factor; when the whole input was parsed, every
\* "(" of it gave one operand subtree; 1+2*3 parses as Add(1, Mul(2, 3)),
\* value 7, and (1+2)*3 as Mul(Add(1, 2), 3), value 9.
C8_PrecedenceAndParens ==
  Parsed =>
     /\ \A n \in 1..Len(nodes) : nodes[n].kind \in Multiplicative =>
           \A c \in {nodes[n].lhs, nodes[n].rhs} :
              nodes[c].kind \in Additive => c \in Range(parens)
     /\ at_eof => Len(parens) = OpenParens(Len(tokens))
     /\ user_input = <<"1", "+", "2", "*", "3">> =>
           /\ Tree(root) = <<ND_ADD, Lit(1), <<ND_MUL, Lit(2), Lit(3)>>>>
           /\ Eval(root) = [ok |-> TRUE, v |-> 7]
     /\ user_input = <<"(", "1", "+", "2", ")", "*", "3">> =>
           /\ Tree(root) = <<ND_MUL, <<ND_ADD, Lit(1), Lit(2)>>, Lit(3)>>
           /\ Eval(root) = [ok |-> TRUE, v |-> 9]

C8_Witness ==
  /\ pc = "exit" /\ status = 0
  /\ user_input = <<"(", "1", "+", "2", ")", "*", "3">>
  /\ nodes[root].kind = ND_MUL
  /\ nodes[nodes[root].lhs].kind = ND_ADD
  /\ nodes[root].lhs \in Range(parens)

\* C9: for every binary node, running the lines of gen leaves the value of
\* the left subtree in rax and of the right subtree in rdi after the two
\* pops, and pushes left OP right, the value of the tree (a divide fault
\* where a divisor is 0).
C9_OperandOrder ==
  pc = "gen" =>
     \A n \in 1..Len(nodes) : SmallTree(n) =>
        LET g == gen(n)
            m == Run(g, Machine0)
            e == Eval(n)
        IN  /\ m.fault = ~e.ok
            /\ e.ok => m.stack = <<e.v>>
            /\ (e.ok /\ nodes[n].kind # ND_NUM) =>
                  LET l == Eval(nodes[n].lhs)
                      r == Eval(nodes[n].rhs)
                      operands == gen(nodes[n].lhs) \o gen(nodes[n].rhs)
                      popped == Run(SubSeq(g, 1, Len(operands) + 2), Machine0)
                  IN  /\ Run(operands, Machine0).stack = <<l.v, r.v>>
                      /\ g[Len(operands) + 1] = <<"  pop rdi">>
                      /\ g[Len(operands) + 2] = <<"  pop rax">>
                      /\ popped.rax = l.v /\ popped.rdi = r.v
                      /\ popped.stack = <<>>
                      /\ g[Len(g)] = <<"  push rax">>

C9_Witness ==
  /\ pc = "gen"
  /\ nodes[root].kind = ND_SUB /\ SmallTree(root)
  /\ Eval(root).ok /\ Eval(root).v < 0
  /\ Run(gen(root), Machine0).stack = <<Eval(root).v>>

\* C10: the token list ends with its only TK_EOF token, and the cursor always
\* points at one of its tokens: at TK_EOF consume leaves it in place and
\* expect and expect_number fail.
C10_CursorWithinStream ==
  (pc \in {"parse", "prologue", "gen", "epilogue"} \/ (pc = "exit" /\ token # NULL)) =>
     /\ tokens[Len(tokens)].kind = TK_EOF
     /\ \A i \in 1..(Len(tokens) - 1) : tokens[i].kind # TK_EOF
     /\ token \in 1..Len(tokens)
     /\ at_eof =>
          /\ \A c \in {"+", "-", "*", "/", "(", ")"} :
                /\ ~consume(c).ok /\ consume(c).token = token
                /\ expect(c).fail
          /\ expect_number.fail

C10_Witness ==
  /\ Running_("expr", {"loop"})
  /\ Len(tokens) > 1
  /\ at_eof

====
